---- MODULE Spec2Model ----
(***************************************************************************)
(* Unscented Kalman filter of SFND_Unscented_Kalman_Filter/src/ukf.cpp.    *)
(*                                                                         *)
(* A C++ double is modelled as a fixed-point number: the integer v stands  *)
(* for the real v / Scale.  One extra value, NaN, stands for every         *)
(* non-finite double (NaN, +Inf, -Inf); it is absorbing for arithmetic and *)
(* every ordered comparison with it is false, as in IEEE 754.              *)
(* Vectors and matrices are tuples; the code's index i is index i + 1 here.*)
(***************************************************************************)
EXTENDS Integers, Sequences, FiniteSets, TLC

\* ------------------------------------------------------------------------
\* double arithmetic
\* ------------------------------------------------------------------------

\* one unit of the fixed-point representation of a double
Scale == 10000

\* the non-finite double
NaN == 2000000000

Abs(a) == IF a < 0 THEN -a ELSE a

IsFinite(a) == a # NaN

\* a literal such as 1.5 is FP(15, 10)
FP(num, den) == (num * Scale) \div den

Neg(a) == IF a = NaN THEN NaN ELSE -a

Add(a, b) == IF a = NaN \/ b = NaN THEN NaN ELSE a + b

Sub(a, b) == IF a = NaN \/ b = NaN THEN NaN ELSE a - b

\* |a| * |b| / Scale, rounded to nearest, without an intermediate above 2^31
MulU(a, b) ==
    LET ah == a \div Scale
        al == a % Scale
        bh == b \div Scale
        bl == b % Scale
    IN  ah * bh * Scale + ah * bl + al * bh + (al * bl + Scale \div 2) \div Scale

Mul(a, b) ==
    IF a = NaN \/ b = NaN THEN NaN
    ELSE IF (a < 0) = (b < 0) THEN MulU(Abs(a), Abs(b))
         ELSE -MulU(Abs(a), Abs(b))

\* a / b for a >= 0, b > 0, rounded to nearest
RECURSIVE DivU(_, _)
DivU(a, b) ==
    IF b < 200000
    THEN (a \div b) * Scale + ((a % b) * Scale + b \div 2) \div b
    ELSE DivU(a \div 16, b \div 16)

\* x / 0 is Inf or NaN in IEEE 754: non-finite either way
Div(a, b) ==
    IF a = NaN \/ b = NaN \/ b = 0 THEN NaN
    ELSE IF (a < 0) = (b < 0) THEN DivU(Abs(a), Abs(b))
         ELSE -DivU(Abs(a), Abs(b))

\* ordered comparisons: false when an operand is NaN
Gt(a, b) == a # NaN /\ b # NaN /\ a > b

Lt(a, b) == a # NaN /\ b # NaN /\ a < b

Le(a, b) == a # NaN /\ b # NaN /\ a <= b

fabs(a) == IF a = NaN THEN NaN ELSE Abs(a)

\* floor of the square root of a natural number (Newton's iteration)
RECURSIVE ISqrtFrom(_, _)
ISqrtFrom(n, g) ==
    LET h == (g + n \div g) \div 2
    IN  IF h >= g THEN g ELSE ISqrtFrom(n, h)

ISqrt(n) == IF n = 0 THEN 0 ELSE ISqrtFrom(n, 46341)

\* sqrt of a double; sqrt of a negative number is NaN
sqrt(a) ==
    IF a = NaN \/ a < 0 THEN NaN
    ELSE IF a < 200000 THEN ISqrt(a * Scale)
    ELSE IF a < 20000000 THEN ISqrt(a * 100) * 10
    ELSE ISqrt(a) * 100

\* sqrt(p * p + q * q) of two doubles, exact to one unit
Hypot(p, q) ==
    IF p = NaN \/ q = NaN THEN NaN
    ELSE IF Abs(p) < 30000 /\ Abs(q) < 30000 THEN ISqrt(p * p + q * q)
    ELSE sqrt(Add(Mul(p, p), Mul(q, q)))

M_PI == 31416

TwoPi == 2 * M_PI

HalfPi == M_PI \div 2

\* the value of a sine or cosine lies in [-1, 1]
Clamp1(a) == IF a > Scale THEN Scale ELSE IF a < -Scale THEN -Scale ELSE a

\* sin on [-pi/2, pi/2]: Taylor polynomial of degree 9
SinPoly(a) ==
    LET a2 == Mul(a, a)
        t4 == Sub(Scale, Div(a2, 72 * Scale))
        t3 == Sub(Scale, Mul(Div(a2, 42 * Scale), t4))
        t2 == Sub(Scale, Mul(Div(a2, 20 * Scale), t3))
        t1 == Sub(Scale, Mul(Div(a2, 6 * Scale), t2))
    IN  Clamp1(Mul(a, t1))

\* cos on [-pi/2, pi/2]: Taylor polynomial of degree 10
CosPoly(a) ==
    LET a2 == Mul(a, a)
        t5 == Sub(Scale, Div(a2, 90 * Scale))
        t4 == Sub(Scale, Mul(Div(a2, 56 * Scale), t5))
        t3 == Sub(Scale, Mul(Div(a2, 30 * Scale), t4))
        t2 == Sub(Scale, Mul(Div(a2, 12 * Scale), t3))
    IN  Clamp1(Sub(Scale, Mul(Div(a2, 2 * Scale), t2)))

\* the representative of a modulo 2 pi in [-pi, pi)
Reduce(a) == ((a + M_PI) % TwoPi) - M_PI

sin(a) ==
    IF a = NaN THEN NaN
    ELSE LET r == Reduce(a)
         IN  IF r > HalfPi THEN SinPoly(M_PI - r)
             ELSE IF r < -HalfPi THEN SinPoly(-M_PI - r)
             ELSE SinPoly(r)

cos(a) ==
    IF a = NaN THEN NaN
    ELSE LET r == Reduce(a)
         IN  IF r > HalfPi THEN -CosPoly(M_PI - r)
             ELSE IF r < -HalfPi THEN -CosPoly(M_PI + r)
             ELSE CosPoly(r)

\* atan on [0, 1] (odd minimax polynomial of degree 9)
AtanPoly(t) ==
    LET t2 == Mul(t, t)
        p4 == Add(-851, Mul(208, t2))
        p3 == Add(1801, Mul(p4, t2))
        p2 == Add(-3303, Mul(p3, t2))
        p1 == Add(9999, Mul(p2, t2))
    IN  Mul(t, p1)

\* atan2(0, 0) = 0, as in the C library
atan2(y, x) ==
    IF y = NaN \/ x = NaN THEN NaN
    ELSE IF x = 0 /\ y = 0 THEN 0
    ELSE LET ay == Abs(y)
             ax == Abs(x)
             base == IF ay <= ax THEN AtanPoly(Div(ay, ax))
                     ELSE HalfPi - AtanPoly(Div(ax, ay))
             q == IF x >= 0 THEN base ELSE M_PI - base
         IN  IF y >= 0 THEN q ELSE -q

\* ------------------------------------------------------------------------
\* vectors and matrices (Eigen::VectorXd, Eigen::MatrixXd)
\* ------------------------------------------------------------------------

Vec2(f(_)) == <<f(1), f(2)>>

Vec3(f(_)) == <<f(1), f(2), f(3)>>

Vec5(f(_)) == <<f(1), f(2), f(3), f(4), f(5)>>

Vec7(f(_)) == <<f(1), f(2), f(3), f(4), f(5), f(6), f(7)>>

Vec15(f(_)) ==
    <<f(1), f(2), f(3), f(4), f(5), f(6), f(7), f(8),
      f(9), f(10), f(11), f(12), f(13), f(14), f(15)>>

\* a vector of n entries, n one of the dimensions the filter uses
Vec(n, f(_)) ==
    CASE n = 2 -> Vec2(f)
      [] n = 3 -> Vec3(f)
      [] n = 5 -> Vec5(f)
      [] n = 6 -> <<f(1), f(2), f(3), f(4), f(5), f(6)>>
      [] n = 7 -> Vec7(f)
      [] n = 15 -> Vec15(f)

\* a matrix of m rows and n columns, as the tuple of its rows
Mat(m, n, f(_, _)) == Vec(m, LAMBDA r: Vec(n, LAMBDA c: f(r, c)))

\* u[1] + ... + u[n]
RECURSIVE SumTo(_, _)
SumTo(u, n) == IF n = 0 THEN 0 ELSE Add(SumTo(u, n - 1), u[n])

\* u[1] * v[1] + ... + u[n] * v[n]
RECURSIVE DotTo(_, _, _)
DotTo(u, v, n) == IF n = 0 THEN 0 ELSE Add(DotTo(u, v, n - 1), Mul(u[n], v[n]))

\* MatrixXd(m, n) or VectorXd(n) just allocated: every entry holds g
Filled(m, n, g) == Mat(m, n, LAMBDA r, c: g)

FilledVec(n, g) == Vec(n, LAMBDA i: g)

\* ------------------------------------------------------------------------
\* UKF::UKF: the parameters the constructor sets
\* ------------------------------------------------------------------------

std_a_ == FP(15, 10)

std_yawdd_ == FP(20, 10)

std_laspx_ == FP(15, 100)

std_laspy_ == FP(15, 100)

std_radr_ == FP(3, 10)

std_radphi_ == FP(3, 100)

std_radrd_ == FP(3, 10)

n_x_ == 5

n_aug_ == 7

\* number of sigma points, 2 * n_aug_ + 1
n_sig == 2 * n_aug_ + 1

lambda_ == 3 - n_x_

n_z_radar_ == 3

n_z_lidar_ == 2

\* while (a > M_PI) a -= 2. * M_PI;
RECURSIVE WhileAbove(_)
WhileAbove(a) == IF Gt(a, M_PI) THEN WhileAbove(Sub(a, TwoPi)) ELSE a

\* while (a < -M_PI) a += 2. * M_PI;
RECURSIVE WhileBelow(_)
WhileBelow(a) == IF Lt(a, -M_PI) THEN WhileBelow(Add(a, TwoPi)) ELSE a

\* the angle normalization the code applies to a difference
NormalizeAngle(a) == WhileBelow(WhileAbove(a))

\* ------------------------------------------------------------------------
\* UKF::GenerateAugmentedSigmaPoints
\* ------------------------------------------------------------------------

\* P_aug: P_ in the top left corner, the process noise on the diagonal
AugmentedCovariance(P) ==
    Mat(n_aug_, n_aug_, LAMBDA r, c:
        IF r <= n_x_ /\ c <= n_x_ THEN P[r][c]
        ELSE IF r = n_x_ + 1 /\ c = n_x_ + 1 THEN Mul(std_a_, std_a_)
        ELSE IF r = n_x_ + 2 /\ c = n_x_ + 2 THEN Mul(std_yawdd_, std_yawdd_)
        ELSE 0)

\* Eigen's in-place Cholesky factorisation from column k on.  At a pivot
\* x <= 0 it stops and leaves the columns from k on as they are.
RECURSIVE LLTFrom(_, _)
LLTFrom(M, k) ==
    IF k > n_aug_ THEN M
    ELSE LET x == Sub(M[k][k], DotTo(M[k], M[k], k - 1))
         IN  IF Le(x, 0) THEN M
             ELSE LET d == sqrt(x)
                  IN  LLTFrom(Mat(n_aug_, n_aug_, LAMBDA r, c:
                          IF c # k \/ r < k THEN M[r][c]
                          ELSE IF r = k THEN d
                          ELSE Div(Sub(M[r][k], DotTo(M[r], M[k], k - 1)), d)),
                        k + 1)

\* P_aug.llt().matrixL(): the lower triangle of the factorised storage
MatrixL(A) ==
    LET M == LLTFrom(A, 1)
    IN  Mat(n_aug_, n_aug_, LAMBDA r, c: IF c <= r THEN M[r][c] ELSE 0)

\* whether the factorisation of A stops at a non-positive pivot
RECURSIVE LLTFailsFrom(_, _)
LLTFailsFrom(M, k) ==
    IF k > n_aug_ THEN FALSE
    ELSE LET x == Sub(M[k][k], DotTo(M[k], M[k], k - 1))
         IN  IF Le(x, 0) THEN TRUE
             ELSE LET d == sqrt(x)
                  IN  LLTFailsFrom(Mat(n_aug_, n_aug_, LAMBDA r, c:
                          IF c # k \/ r < k THEN M[r][c]
                          ELSE IF r = k THEN d
                          ELSE Div(Sub(M[r][k], DotTo(M[r], M[k], k - 1)), d)),
                        k + 1)

\* the 15 augmented sigma points, as the tuple of the columns of Xsig_aug_
GenerateAugmentedSigmaPoints(x, P) ==
    LET x_aug == Vec7(LAMBDA r: IF r <= n_x_ THEN x[r] ELSE 0)
        L == MatrixL(AugmentedCovariance(P))
        spread == sqrt(FP(lambda_ + n_aug_, 1))
    IN  Vec15(LAMBDA j:
            IF j = 1 THEN x_aug
            ELSE IF j <= n_aug_ + 1
                 THEN Vec7(LAMBDA r: Add(x_aug[r], Mul(spread, L[r][j - 1])))
                 ELSE Vec7(LAMBDA r:
                          Sub(x_aug[r], Mul(spread, L[r][j - 1 - n_aug_]))))

\* ------------------------------------------------------------------------
\* UKF::SigmaPointPrediction
\* ------------------------------------------------------------------------

\* one augmented sigma point through the CTRV process model
PredictPoint(p, delta_t) ==
    LET p_x == p[1]
        p_y == p[2]
        v == p[3]
        yaw == p[4]
        yawd == p[5]
        nu_a == p[6]
        nu_yawdd == p[7]
        cy == cos(yaw)
        sy == sin(yaw)
        yaw_t == Add(yaw, Mul(yawd, delta_t))
        turning == Gt(fabs(yawd), FP(1, 1000))
        px_p == IF turning
                THEN Add(p_x, Mul(Div(v, yawd), Sub(sin(yaw_t), sy)))
                ELSE Add(p_x, Mul(Mul(v, delta_t), cy))
        py_p == IF turning
                THEN Add(p_y, Mul(Div(v, yawd), Sub(cy, cos(yaw_t))))
                ELSE Add(p_y, Mul(Mul(v, delta_t), sy))
        half_a_dt2 == Mul(Mul(Mul(FP(5, 10), nu_a), delta_t), delta_t)
        half_y_dt2 == Mul(Mul(Mul(FP(5, 10), nu_yawdd), delta_t), delta_t)
    IN  <<Add(px_p, Mul(half_a_dt2, cy)),
          Add(py_p, Mul(half_a_dt2, sy)),
          Add(v, Mul(nu_a, delta_t)),
          Add(yaw_t, half_y_dt2),
          Add(yawd, Mul(nu_yawdd, delta_t))>>

SigmaPointPrediction(Xsig_aug, delta_t) ==
    Vec15(LAMBDA i: PredictPoint(Xsig_aug[i], delta_t))

\* ------------------------------------------------------------------------
\* UKF::PredictMeanAndCovariance
\* ------------------------------------------------------------------------

\* sum over the sigma points of weights(i) * Xsig.col(i), a vector of n rows
WeightedMean(w, Xsig, n) ==
    Vec(n, LAMBDA r: SumTo(Vec15(LAMBDA i: Mul(w[i], Xsig[i][r])), n_sig))

\* Xsig.col(i) - mean, with row `angle` normalized (0: no row is)
Deviation(col, mean, n, angle) ==
    Vec(n, LAMBDA r:
        IF r = angle THEN NormalizeAngle(Sub(col[r], mean[r]))
        ELSE Sub(col[r], mean[r]))

\* sum over the sigma points of weights(i) * a_i * b_i.transpose()
WeightedOuter(w, A, B, m, n) ==
    Mat(m, n, LAMBDA r, c:
        SumTo(Vec15(LAMBDA i: Mul(Mul(w[i], A[i][r]), B[i][c])), n_sig))

\* the state differences x_diff of the 15 predicted sigma points
StateDeviations(Xsig_pred, x, angle) ==
    Vec15(LAMBDA i: Deviation(Xsig_pred[i], x, n_x_, angle))

PredictMeanAndCovariance(w, Xsig_pred) ==
    LET x == WeightedMean(w, Xsig_pred, n_x_)
        D == StateDeviations(Xsig_pred, x, 4)
    IN  [x |-> x, P |-> WeightedOuter(w, D, D, n_x_, n_x_)]

\* UKF::Prediction
Prediction(x, P, w, delta_t) ==
    LET Xsig_aug == GenerateAugmentedSigmaPoints(x, P)
        Xsig_pred == SigmaPointPrediction(Xsig_aug, delta_t)
        m == PredictMeanAndCovariance(w, Xsig_pred)
    IN  [Xsig_aug |-> Xsig_aug, Xsig_pred |-> Xsig_pred, x |-> m.x, P |-> m.P]

\* ------------------------------------------------------------------------
\* Eigen: MatrixXd::inverse() and products
\* ------------------------------------------------------------------------

\* the row of column c, among rows c..n, that holds the largest magnitude
PivotRow(A, c, n) ==
    CHOOSE r \in c..n : \A q \in c..n : Abs(A[q][c]) <= Abs(A[r][c])

\* row r of M with rows a and b exchanged
Swapped(M, r, a, b) == IF r = a THEN M[b] ELSE IF r = b THEN M[a] ELSE M[r]

\* Gauss-Jordan elimination with partial pivoting on [A | B] from column c
RECURSIVE GaussJordan(_, _, _, _)
GaussJordan(A, B, c, n) ==
    IF c > n THEN B
    ELSE LET p == PivotRow(A, c, n)
             pv == A[p][c]
             rowA == Vec(n, LAMBDA j: Div(A[p][j], pv))
             rowB == Vec(n, LAMBDA j: Div(B[p][j], pv))
             A1 == Mat(n, n, LAMBDA r, j:
                       IF r = c THEN rowA[j]
                       ELSE Sub(Swapped(A, r, c, p)[j],
                                Mul(Swapped(A, r, c, p)[c], rowA[j])))
             B1 == Mat(n, n, LAMBDA r, j:
                       IF r = c THEN rowB[j]
                       ELSE Sub(Swapped(B, r, c, p)[j],
                                Mul(Swapped(A, r, c, p)[c], rowB[j])))
         IN  GaussJordan(A1, B1, c + 1, n)

\* S.inverse(); a singular S gives non-finite entries
Inverse(S, n) ==
    GaussJordan(S, Mat(n, n, LAMBDA r, c: IF r = c THEN Scale ELSE 0), 1, n)

\* whether the elimination of S meets a zero or non-finite pivot
RECURSIVE SingularFrom(_, _, _)
SingularFrom(A, c, n) ==
    IF c > n THEN FALSE
    ELSE LET p == PivotRow(A, c, n)
             pv == A[p][c]
             rowA == Vec(n, LAMBDA j: Div(A[p][j], pv))
             A1 == Mat(n, n, LAMBDA r, j:
                       IF r = c THEN rowA[j]
                       ELSE Sub(Swapped(A, r, c, p)[j],
                                Mul(Swapped(A, r, c, p)[c], rowA[j])))
         IN  pv = 0 \/ pv = NaN \/ SingularFrom(A1, c + 1, n)

\* A * B for A of m x k and B of k x n
MatMul(A, B, m, k, n) ==
    Mat(m, n, LAMBDA r, c:
        SumTo(Vec(k, LAMBDA j: Mul(A[r][j], B[j][c])), k))

\* A * B.transpose() for A of m x k and B of n x k
MatMulT(A, B, m, k, n) == Mat(m, n, LAMBDA r, c: DotTo(A[r], B[c], k))

\* A * v for A of m x k
MatVec(A, v, m, k) == Vec(m, LAMBDA r: DotTo(A[r], v, k))

\* ------------------------------------------------------------------------
\* UKF::PredictRadarMeasurement, UKF::PredictLidarMeasurement
\* ------------------------------------------------------------------------

\* one predicted sigma point in the radar measurement space
RadarPoint(p) ==
    LET p_x == p[1]
        p_y == p[2]
        v == p[3]
        yaw == p[4]
        v1 == Mul(cos(yaw), v)
        v2 == Mul(sin(yaw), v)
    IN  <<Hypot(p_x, p_y),
          atan2(p_y, p_x),
          Div(Add(Mul(p_x, v1), Mul(p_y, v2)), Hypot(p_x, p_y))>>

\* one predicted sigma point in the lidar measurement space
LidarPoint(p) == <<p[1], p[2]>>

\* the measurement noise covariance R, diagonal
NoiseCovariance(stds, n) ==
    Mat(n, n, LAMBDA r, c: IF r = c THEN Mul(stds[r], stds[r]) ELSE 0)

MatAdd(A, B, m, n) == Mat(m, n, LAMBDA r, c: Add(A[r][c], B[r][c]))

MatSub(A, B, m, n) == Mat(m, n, LAMBDA r, c: Sub(A[r][c], B[r][c]))

PredictRadarMeasurement(w, Xsig_pred) ==
    LET Zsig == Vec15(LAMBDA i: RadarPoint(Xsig_pred[i]))
        z_pred == WeightedMean(w, Zsig, n_z_radar_)
        D == Vec15(LAMBDA i: Deviation(Zsig[i], z_pred, n_z_radar_, 2))
        R == NoiseCovariance(<<std_radr_, std_radphi_, std_radrd_>>, n_z_radar_)
    IN  [Zsig |-> Zsig, z_pred |-> z_pred,
         S |-> MatAdd(WeightedOuter(w, D, D, n_z_radar_, n_z_radar_), R,
                      n_z_radar_, n_z_radar_)]

PredictLidarMeasurement(w, Xsig_pred) ==
    LET Zsig == Vec15(LAMBDA i: LidarPoint(Xsig_pred[i]))
        z_pred == WeightedMean(w, Zsig, n_z_lidar_)
        D == Vec15(LAMBDA i: Deviation(Zsig[i], z_pred, n_z_lidar_, 0))
        R == NoiseCovariance(<<std_laspx_, std_laspy_>>, n_z_lidar_)
    IN  [Zsig |-> Zsig, z_pred |-> z_pred,
         S |-> MatAdd(WeightedOuter(w, D, D, n_z_lidar_, n_z_lidar_), R,
                      n_z_lidar_, n_z_lidar_)]

\* ------------------------------------------------------------------------
\* UKF::UpdateLidar, UKF::UpdateRadar
\* ------------------------------------------------------------------------

\* x_ = x_ + K * z_diff;  P_ = P_ - K * S * K.transpose();
Fuse(x, P, Tc, S, z_diff, n) ==
    LET K == MatMul(Tc, Inverse(S, n), n_x_, n, n)
        Kz == MatVec(K, z_diff, n_x_, n)
        KS == MatMul(K, S, n_x_, n, n)
    IN  [x |-> Vec5(LAMBDA r: Add(x[r], Kz[r])),
         P |-> MatSub(P, MatMulT(KS, K, n_x_, n, n_x_), n_x_, n_x_)]

\* z is the measurement read from the package
UpdateLidar(z, w, Xsig_pred, x, P, Zsig, z_pred, S) ==
    LET Zd == Vec15(LAMBDA i: Deviation(Zsig[i], z_pred, n_z_lidar_, 0))
        Xd == StateDeviations(Xsig_pred, x, 0)
        Tc == WeightedOuter(w, Xd, Zd, n_x_, n_z_lidar_)
        z_diff == Deviation(z, z_pred, n_z_lidar_, 0)
    IN  Fuse(x, P, Tc, S, z_diff, n_z_lidar_)

UpdateRadar(z, w, Xsig_pred, x, P, Zsig, z_pred, S) ==
    LET Zd == Vec15(LAMBDA i: Deviation(Zsig[i], z_pred, n_z_radar_, 2))
        Xd == StateDeviations(Xsig_pred, x, 4)
        Tc == WeightedOuter(w, Xd, Zd, n_x_, n_z_radar_)
        z_diff == Deviation(z, z_pred, n_z_radar_, 2)
    IN  Fuse(x, P, Tc, S, z_diff, n_z_radar_)

\* ------------------------------------------------------------------------
\* the weights as IEEE-754 doubles
\*
\* The sigma-point weights are kept bit for bit: a weight is the record
\* [neg, exp, sig] that stands for (-1)^neg * sig * 2^exp, where sig is a
\* natural number of SignificandBits bits.  A natural number of any size is
\* the tuple of its digits in base Limb, least significant first.
\* ------------------------------------------------------------------------

\* the width of a double's significand
SignificandBits == 53

LimbBits == 15

RECURSIVE Pow2(_)
Pow2(k) == IF k <= 0 THEN 1 ELSE 2 * Pow2(k - 1)

Limb == Pow2(LimbBits)

RECURSIVE Zeros(_)
Zeros(k) == IF k <= 0 THEN <<>> ELSE <<0>> \o Zeros(k - 1)

\* a + b + carry
RECURSIVE BigAdd(_, _, _)
BigAdd(a, b, carry) ==
    IF a = <<>> /\ b = <<>>
    THEN IF carry = 0 THEN <<>> ELSE <<carry>>
    ELSE LET x == IF a = <<>> THEN 0 ELSE Head(a)
             y == IF b = <<>> THEN 0 ELSE Head(b)
             s == x + y + carry
         IN  <<s % Limb>> \o BigAdd(IF a = <<>> THEN <<>> ELSE Tail(a),
                                    IF b = <<>> THEN <<>> ELSE Tail(b),
                                    s \div Limb)

\* -1, 0 or 1 as a < b, a = b or a > b
RECURSIVE BigCmp(_, _)
BigCmp(a, b) ==
    IF a = <<>> /\ b = <<>> THEN 0
    ELSE LET x == IF a = <<>> THEN 0 ELSE Head(a)
             y == IF b = <<>> THEN 0 ELSE Head(b)
             high == BigCmp(IF a = <<>> THEN <<>> ELSE Tail(a),
                            IF b = <<>> THEN <<>> ELSE Tail(b))
         IN  IF high # 0 THEN high
             ELSE IF x < y THEN -1 ELSE IF x > y THEN 1 ELSE 0

\* a * m + carry for a natural m <= Limb
RECURSIVE BigTimes(_, _, _)
BigTimes(a, m, carry) ==
    IF a = <<>>
    THEN IF carry = 0 THEN <<>> ELSE <<carry>>
    ELSE LET s == Head(a) * m + carry
         IN  <<s % Limb>> \o BigTimes(Tail(a), m, s \div Limb)

\* a * 2^k
BigShift(a, k) ==
    Zeros(k \div LimbBits) \o BigTimes(a, Pow2(k % LimbBits), 0)

\* the quotient a \div b and the remainder of a natural a, given from its
\* most significant digit on, by a natural b < Limb
RECURSIVE ShortDivision(_, _, _)
ShortDivision(a, b, rem) ==
    IF a = <<>> THEN [quot |-> <<>>, rem |-> rem]
    ELSE LET n == rem * Limb + Head(a)
             rest == ShortDivision(Tail(a), b, n % b)
         IN  [quot |-> rest.quot \o <<n \div b>>, rem |-> rest.rem]

RECURSIVE Reversed(_)
Reversed(a) == IF a = <<>> THEN <<>> ELSE Reversed(Tail(a)) \o <<Head(a)>>

\* the double 0.0
ZeroDouble == [neg |-> FALSE, exp |-> 0, sig |-> <<>>]

IsZeroDouble(d) == BigCmp(d.sig, <<>>) = 0

\* the least s with a * 2^s >= b, for 0 < a < 2 * b
RECURSIVE LeadingShift(_, _)
LeadingShift(a, b) == IF a >= b THEN 0 ELSE 1 + LeadingShift(2 * a, b)

\* the double p / q of two doubles that hold the integers p and q, q # 0 and
\* |p| < 2 |q| < Limb: the quotient rounded to nearest, ties to even
Quotient(p, q) ==
    IF p = 0 THEN ZeroDouble
    ELSE LET a == Abs(p)
             b == Abs(q)
             s == LeadingShift(a, b)
             d == ShortDivision(
                      Reversed(BigShift(<<a * Pow2(s)>>, SignificandBits - 1)),
                      b, 0)
             up == 2 * d.rem > b \/ (2 * d.rem = b /\ d.quot[1] % 2 = 1)
             r == IF up THEN BigAdd(d.quot, <<1>>, 0) ELSE d.quot
             carried == BigCmp(r, BigShift(<<1>>, SignificandBits)) >= 0
         IN  [neg |-> (p < 0) # (q < 0),
              exp |-> IF carried THEN 2 - s - SignificandBits
                      ELSE 1 - s - SignificandBits,
              sig |-> IF carried THEN BigShift(<<1>>, SignificandBits - 1)
                      ELSE r]

\* the natural number a \div 2^k, for one that fits an integer
RECURSIVE BigValue(_)
BigValue(a) == IF a = <<>> THEN 0 ELSE Head(a) + Limb * BigValue(Tail(a))

\* the bits of a significand the fixed-point value is read from
LeadingBits == 17

\* the fixed-point number the filter's arithmetic uses for the double d
AtScale(d) ==
    LET drop == SignificandBits - LeadingBits
        high == SubSeq(d.sig, drop \div LimbBits + 1, Len(d.sig))
        t == BigValue(high) \div Pow2(drop % LimbBits)
        k == -(d.exp + drop)
        v == IF t = 0 THEN 0
             ELSE IF k <= 0 THEN t * Scale * Pow2(-k)
             ELSE IF k > 30 THEN 0
             ELSE (t * Scale + Pow2(k - 1)) \div Pow2(k)
    IN  IF d.neg THEN -v ELSE v

\* ------------------------------------------------------------------------
\* the estimator: its members, and what the model records of the last call
\* ------------------------------------------------------------------------

VARIABLES
    is_initialized_,  \* bool
    use_laser_,       \* bool
    use_radar_,       \* bool
    time_us_,         \* long long: timestamp of the last package, microseconds
    x_,               \* VectorXd(5): px, py, v, yaw, yawd
    P_,               \* MatrixXd(5, 5)
    weights_,         \* VectorXd(15)
    Xsig_aug_,        \* MatrixXd(7, 15), as 15 columns
    Xsig_pred_,       \* MatrixXd(5, 15), as 15 columns
    Zsig_radar,       \* MatrixXd(3, 15), as 15 columns
    z_pred_r_,        \* VectorXd(3)
    S_r_,             \* MatrixXd(3, 3)
    Zsig_lidar,       \* MatrixXd(2, 15), as 15 columns
    z_pred_l_,        \* VectorXd(2)
    S_l_,             \* MatrixXd(2, 2)
    aborted,          \* the process was ended by a failed Eigen index assertion
    package,          \* the package of the last ProcessMeasurement call
    calls,            \* the member functions that call ran, in order
    delta_t,          \* the delta_t that call computed (0 when it computed none)
    count             \* the number of ProcessMeasurement calls that returned

members ==
    <<is_initialized_, use_laser_, use_radar_, time_us_, x_, P_, weights_,
      Xsig_aug_, Xsig_pred_, Zsig_radar, z_pred_r_, S_r_,
      Zsig_lidar, z_pred_l_, S_l_>>

vars == <<members, aborted, package, calls, delta_t, count>>

\* ------------------------------------------------------------------------
\* inputs
\* ------------------------------------------------------------------------

\* the longest run of packages under Spec
MaxPackages == 3

\* the longest run of well-formed packages under SpecValid and SpecConfigured
MaxValidPackages == 4

LASER == "LASER"

RADAR == "RADAR"

\* a sensor_type_ that is neither enumerator of MeasurementPackage::SensorType
UNKNOWN == "UNKNOWN"

Pkg(type, raw) == [sensor_type_ |-> type, raw_measurements_ |-> raw]

\* well-formed measurements: LASER [px, py] and RADAR [rho, phi, rho_dot]
ValidMeasurements ==
    { Pkg(LASER, <<0, 0>>),
      Pkg(LASER, <<FP(1, 1), FP(2, 1)>>),
      Pkg(RADAR, <<FP(5, 1), 0, 0>>),
      Pkg(RADAR, <<FP(2, 1), FP(12, 10), FP(5, 10)>>) }

\* an unsupported sensor type, and a LASER measurement one value short
InvalidMeasurements ==
    { Pkg(UNKNOWN, <<FP(1, 1), FP(2, 1)>>),
      Pkg(LASER, <<FP(1, 1)>>) }

\* the measurements of Spec: two well-formed ones and the invalid ones
AnyMeasurements ==
    { Pkg(LASER, <<FP(1, 1), FP(2, 1)>>),
      Pkg(RADAR, <<FP(5, 1), 0, 0>>) } \cup InvalidMeasurements

\* timestamp of the first package, microseconds
FirstTimestamp == 1000 * 1000

\* timestamps that follow a package stamped t: one second later or earlier
LaterTimestamps(t) == {t + 1000000}

EarlierTimestamps(t) == {t - 1000000}

Stamped(ms, ts) ==
    { [sensor_type_ |-> m.sensor_type_, timestamp_ |-> t,
       raw_measurements_ |-> m.raw_measurements_] : m \in ms, t \in ts }

\* What the indeterminate reads of one call may give: g[k] stands for
\* raw_measurements_[k - 1] read past the end of the vector (Eigen's
\* assertions off), g[1] and g[2] for the uninitialized locals px and py.
Garbage == { <<0, 0, 0>>, <<FP(7, 1), FP(-3, 1), FP(1, 2)>> }

\* ------------------------------------------------------------------------
\* UKF::UKF
\* ------------------------------------------------------------------------

NoPackage == [sensor_type_ |-> "NONE", timestamp_ |-> 0, raw_measurements_ |-> <<>>]

\* The constructor allocates the vectors and matrices without writing them;
\* no member function reads one before writing it, and 0 stands for the
\* unwritten content.
Init ==
    /\ is_initialized_ = FALSE
    /\ use_laser_ = TRUE
    /\ use_radar_ = TRUE
    /\ time_us_ = 0
    /\ x_ = FilledVec(n_x_, 0)
    /\ P_ = Filled(n_x_, n_x_, 0)
    /\ weights_ = Vec15(LAMBDA i: ZeroDouble)
    /\ Xsig_aug_ = Vec15(LAMBDA i: FilledVec(n_aug_, 0))
    /\ Xsig_pred_ = Vec15(LAMBDA i: FilledVec(n_x_, 0))
    /\ Zsig_radar = Vec15(LAMBDA i: FilledVec(n_z_radar_, 0))
    /\ z_pred_r_ = FilledVec(n_z_radar_, 0)
    /\ S_r_ = Filled(n_z_radar_, n_z_radar_, 0)
    /\ Zsig_lidar = Vec15(LAMBDA i: FilledVec(n_z_lidar_, 0))
    /\ z_pred_l_ = FilledVec(n_z_lidar_, 0)
    /\ S_l_ = Filled(n_z_lidar_, n_z_lidar_, 0)
    /\ aborted = FALSE
    /\ package = NoPackage
    /\ calls = <<>>
    /\ delta_t = 0
    /\ count = 0

\* ------------------------------------------------------------------------
\* UKF::InitializeUKF
\* ------------------------------------------------------------------------

\* raw_measurements_[k - 1]; g[k] when the vector has no such element
Raw(pkg, k, g) ==
    IF k <= Len(pkg.raw_measurements_) THEN pkg.raw_measurements_[k] ELSE g[k]

\* the fixed prior the first package sets P_ to
InitialCovariance ==
    Mat(n_x_, n_x_, LAMBDA r, c:
        IF r # c THEN 0 ELSE IF r <= 3 THEN FP(1, 1) ELSE FP(5, 10))

\* InitialPosition with the radar branch forgotten: range and bearing are
\* copied as if they were px and py
InitialPositionUnconverted(pkg, g) ==
    IF pkg.sensor_type_ \in {LASER, RADAR}
    THEN <<Raw(pkg, 1, g), Raw(pkg, 2, g)>>
    ELSE <<g[1], g[2]>>

\* px and py of the first state; g stands for the uninitialized locals
InitialPosition(pkg, g) ==
    IF pkg.sensor_type_ = LASER
    THEN <<Raw(pkg, 1, g), Raw(pkg, 2, g)>>
    ELSE IF pkg.sensor_type_ = RADAR
    THEN LET rho == Raw(pkg, 1, g)
             phi == Raw(pkg, 2, g)
         IN  <<Mul(cos(phi), rho), Mul(sin(phi), rho)>>
    ELSE <<g[1], g[2]>>

InitialState(pkg, g) ==
    LET p == InitialPosition(pkg, g)
    IN  <<p[1], p[2], 0, 0, 0>>

\* Weight with the state dimension n_x_ where the code has n_aug_
WeightOverStateDimension(i) ==
    IF i = 1
    THEN Quotient(lambda_, lambda_ + n_x_)
    ELSE Quotient(1, 2 * (n_x_ + lambda_))

\* weights_(i - 1)
\* 0.5 / d is 1 / (2 d): halving a double is exact
Weight(i) ==
    IF i = 1
    THEN Quotient(lambda_, lambda_ + n_aug_)
    ELSE Quotient(1, 2 * (n_aug_ + lambda_))

InitialWeights == Vec15(LAMBDA i: Weight(i))

\* weights_ as the filter's arithmetic reads it
ScaledWeights(w) == Vec15(LAMBDA i: AtScale(w[i]))

\* InitializedFlag with the assignment of true forgotten
InitializedFlagLeftUnset == FALSE

\* the value InitializeUKF gives is_initialized_
InitializedFlag == TRUE

InitializeUKF(pkg, g) ==
    /\ is_initialized_' = InitializedFlag
    /\ time_us_' = pkg.timestamp_
    /\ P_' = InitialCovariance
    /\ x_' = InitialState(pkg, g)
    /\ weights_' = InitialWeights
    /\ calls' = <<"InitializeUKF">>
    /\ UNCHANGED <<Xsig_aug_, Xsig_pred_, Zsig_radar, z_pred_r_, S_r_,
                   Zsig_lidar, z_pred_l_, S_l_, delta_t>>

\* ------------------------------------------------------------------------
\* UKF::ProcessMeasurement
\* ------------------------------------------------------------------------

\* ElapsedSeconds with the operands of the subtraction exchanged
ElapsedSecondsExchanged(timestamp, time_us) ==
    (time_us - timestamp) \div (1000000 \div Scale)

\* (meas_package.timestamp_ - time_us_) / 1000000.0
ElapsedSeconds(timestamp, time_us) ==
    (timestamp - time_us) \div (1000000 \div Scale)

\* the update the dispatch on sensor_type_ runs; the flags are not consulted
Dispatch(sensor_type, use_laser, use_radar) ==
    IF sensor_type = LASER THEN LASER
    ELSE IF sensor_type = RADAR THEN RADAR
    ELSE "NONE"

\* the timestamp ProcessMeasurement stores in time_us_
StoredTimestamp(pkg) == pkg.timestamp_

LidarCycle(pkg, g, pr) ==
    \E m \in {PredictLidarMeasurement(ScaledWeights(weights_),
                                       pr.Xsig_pred)} :
    \E u \in {UpdateLidar(<<Raw(pkg, 1, g), Raw(pkg, 2, g)>>,
                          ScaledWeights(weights_),
                          pr.Xsig_pred, pr.x, pr.P, m.Zsig, m.z_pred, m.S)} :
        /\ Zsig_lidar' = m.Zsig
        /\ z_pred_l_' = m.z_pred
        /\ S_l_' = m.S
        /\ x_' = u.x
        /\ P_' = u.P
        /\ calls' = <<"Prediction", "PredictLidarMeasurement", "UpdateLidar">>
        /\ UNCHANGED <<Zsig_radar, z_pred_r_, S_r_>>

RadarCycle(pkg, g, pr) ==
    \E m \in {PredictRadarMeasurement(ScaledWeights(weights_),
                                       pr.Xsig_pred)} :
    \E u \in {UpdateRadar(<<Raw(pkg, 1, g), Raw(pkg, 2, g), Raw(pkg, 3, g)>>,
                          ScaledWeights(weights_), pr.Xsig_pred, pr.x, pr.P,
                          m.Zsig, m.z_pred, m.S)} :
        /\ Zsig_radar' = m.Zsig
        /\ z_pred_r_' = m.z_pred
        /\ S_r_' = m.S
        /\ x_' = u.x
        /\ P_' = u.P
        /\ calls' = <<"Prediction", "PredictRadarMeasurement", "UpdateRadar">>
        /\ UNCHANGED <<Zsig_lidar, z_pred_l_, S_l_>>

PredictionOnly(pr) ==
    /\ x_' = pr.x
    /\ P_' = pr.P
    /\ calls' = <<"Prediction">>
    /\ UNCHANGED <<Zsig_radar, z_pred_r_, S_r_, Zsig_lidar, z_pred_l_, S_l_>>

PredictAndUpdate(pkg, g) ==
    \E dt \in {ElapsedSeconds(pkg.timestamp_, time_us_)} :
    \E pr \in {Prediction(x_, P_, ScaledWeights(weights_), dt)} :
    \E branch \in {Dispatch(pkg.sensor_type_, use_laser_, use_radar_)} :
        /\ delta_t' = dt
        /\ time_us_' = StoredTimestamp(pkg)
        /\ Xsig_aug_' = pr.Xsig_aug
        /\ Xsig_pred_' = pr.Xsig_pred
        /\ IF branch = LASER THEN LidarCycle(pkg, g, pr)
           ELSE IF branch = RADAR THEN RadarCycle(pkg, g, pr)
           ELSE PredictionOnly(pr)
        /\ UNCHANGED <<is_initialized_, weights_>>

\* the indices of raw_measurements_ the call reads
IndicesRead(pkg, initialized) ==
    IF pkg.sensor_type_ = LASER THEN {1, 2}
    ELSE IF pkg.sensor_type_ = RADAR THEN (IF initialized THEN {1, 2, 3} ELSE {1, 2})
    ELSE {}

ReadsPastEnd(pkg, initialized) ==
    \E k \in IndicesRead(pkg, initialized) : k > Len(pkg.raw_measurements_)

\* the outcomes of the indeterminate reads of one call
IndeterminateReads(pkg, initialized) ==
    IF \/ ~initialized /\ pkg.sensor_type_ \notin {LASER, RADAR}
       \/ ReadsPastEnd(pkg, initialized)
    THEN Garbage
    ELSE {<<0, 0, 0>>}

\* one call that returns
ProcessMeasurement(pkg) ==
    /\ ~aborted
    /\ \E g \in IndeterminateReads(pkg, is_initialized_) :
           IF ~is_initialized_ THEN InitializeUKF(pkg, g)
           ELSE PredictAndUpdate(pkg, g)
    /\ package' = pkg
    /\ count' = count + 1
    /\ UNCHANGED <<use_laser_, use_radar_, aborted>>

\* one call that Eigen's index assertion ends (assertions on): the process
\* is gone, and the model keeps the members as they were before the call
AbortOnRead(pkg) ==
    /\ ~aborted
    /\ ReadsPastEnd(pkg, is_initialized_)
    /\ aborted' = TRUE
    /\ package' = pkg
    /\ UNCHANGED <<members, calls, delta_t, count>>

\* the owner of the estimator sets the public flags before the first package
Configure(laser, radar) ==
    /\ count = 0
    /\ ~aborted
    /\ <<laser, radar>> # <<use_laser_, use_radar_>>
    /\ use_laser_' = laser
    /\ use_radar_' = radar
    /\ UNCHANGED <<is_initialized_, time_us_, x_, P_, weights_,
                   Xsig_aug_, Xsig_pred_, Zsig_radar, z_pred_r_, S_r_,
                   Zsig_lidar, z_pred_l_, S_l_,
                   aborted, package, calls, delta_t, count>>

\* the timestamps the next package may carry
NextTimestamps ==
    IF count = 0 THEN {FirstTimestamp}
    ELSE LaterTimestamps(time_us_) \cup EarlierTimestamps(time_us_)

\* any package: well-formed or not, in order or not
Next ==
    /\ count < MaxPackages
    /\ \E pkg \in Stamped(AnyMeasurements, NextTimestamps) :
           \/ ProcessMeasurement(pkg)
           \/ AbortOnRead(pkg)

Spec == Init /\ [][Next]_vars

\* well-formed packages only, each stamped later than the one before
NextValid ==
    /\ count < MaxValidPackages
    /\ \E pkg \in Stamped(ValidMeasurements,
                          IF count = 0 THEN {FirstTimestamp}
                          ELSE LaterTimestamps(time_us_)) :
           ProcessMeasurement(pkg)

SpecValid == Init /\ [][NextValid]_vars

NextConfigured ==
    \/ NextValid
    \/ \E laser \in BOOLEAN, radar \in BOOLEAN : Configure(laser, radar)

SpecConfigured == Init /\ [][NextConfigured]_vars

\* ------------------------------------------------------------------------
\* properties
\* ------------------------------------------------------------------------

\* a ProcessMeasurement call returns in this step
Returned == count' = count + 1

Supported(pkg) == pkg.sensor_type_ \in {LASER, RADAR}

LidarCalls == <<"Prediction", "PredictLidarMeasurement", "UpdateLidar">>

RadarCalls == <<"Prediction", "PredictRadarMeasurement", "UpdateRadar">>

AllFinite(M, m, n) == \A r \in 1..m : \A c \in 1..n : IsFinite(M[r][c])

\* C1: the estimator starts Uninitialized; the first LASER or RADAR package
\* makes it Initialized and runs InitializeUKF only, neither Prediction nor
\* an update; once Initialized it stays Initialized.
C1_Lifecycle ==
    [][/\ (count = 0 => ~is_initialized_)
       /\ (Returned /\ ~is_initialized_ /\ Supported(package')
             => is_initialized_' /\ calls' = <<"InitializeUKF">>)
       /\ (is_initialized_ => is_initialized_')]_vars

C1_Witness == count >= 3 /\ is_initialized_ /\ calls # <<"InitializeUKF">>

\* discrepancy allowed between a value and its polar round trip
Tolerance == FP(5, 10000)

Near(a, b) == IsFinite(a) /\ IsFinite(b) /\ Abs(a - b) <= Tolerance

\* C2: after the first package x = (px, py, 0, 0, 0), where (px, py) are the
\* raw values of a LASER package and the Cartesian image of (rho, phi) of a
\* RADAR package, and P is diag(1, 1, 1, 0.5, 0.5) whatever the package;
\* LASER [1, 2] gives [1, 2, 0, 0, 0] and RADAR [5, 0, 0] gives [5, 0, 0, 0, 0].
C2_FirstPackage ==
    count = 1 =>
        LET raw == package.raw_measurements_
        IN  /\ P_ = << <<Scale, 0, 0, 0, 0>>,
                       <<0, Scale, 0, 0, 0>>,
                       <<0, 0, Scale, 0, 0>>,
                       <<0, 0, 0, Scale \div 2, 0>>,
                       <<0, 0, 0, 0, Scale \div 2>> >>
            /\ x_[3] = 0 /\ x_[4] = 0 /\ x_[5] = 0
            /\ package.sensor_type_ = LASER => x_[1] = raw[1] /\ x_[2] = raw[2]
            /\ package.sensor_type_ = RADAR =>
                   /\ Near(Hypot(x_[1], x_[2]), raw[1])
                   /\ Near(atan2(x_[2], x_[1]), raw[2])
            /\ (package.sensor_type_ = LASER /\ raw = <<1 * Scale, 2 * Scale>>)
                   => x_ = <<1 * Scale, 2 * Scale, 0, 0, 0>>
            /\ (package.sensor_type_ = RADAR /\ raw = <<5 * Scale, 0, 0>>)
                   => x_ = <<5 * Scale, 0, 0, 0, 0>>

C2_Witness ==
    /\ count = 1
    /\ package.sensor_type_ = RADAR
    /\ package.raw_measurements_[2] # 0
    /\ x_[1] > 0 /\ x_[2] > x_[1]

\* C3: every LASER or RADAR package processed while Initialized runs
\* Prediction once, first, with delta_t = (timestamp - previous timestamp)
\* / 1e6, then the measurement prediction and the update of its own sensor
\* and nothing of the other sensor; every call that returns, the
\* initializing one too, leaves the package's timestamp in time_us_.
C3_PredictThenUpdate ==
    [][Returned =>
         /\ time_us_' = package'.timestamp_
         /\ (is_initialized_ /\ Supported(package')) =>
              /\ delta_t' * (1000000 \div Scale) = package'.timestamp_ - time_us_
              /\ package'.sensor_type_ = LASER =>
                     /\ calls' = LidarCalls
                     /\ UNCHANGED <<Zsig_radar, z_pred_r_, S_r_>>
              /\ package'.sensor_type_ = RADAR =>
                     /\ calls' = RadarCalls
                     /\ UNCHANGED <<Zsig_lidar, z_pred_l_, S_l_>>]_vars

C3_Witness ==
    /\ count >= 3
    /\ calls = RadarCalls
    /\ delta_t = FP(1, 1)
    /\ time_us_ = package.timestamp_

\* C4: a package stamped no later than the previous one is processed with
\* the elapsed time clamped to zero and without the prediction step.
C4_ClampNonMonotonic ==
    [][(Returned /\ is_initialized_ /\ package'.timestamp_ <= time_us_)
         => /\ delta_t' = 0
            /\ \A k \in 1..Len(calls') : calls'[k] # "Prediction"]_vars

\* a package the estimator supports: LASER with 2 values, RADAR with 3
WellFormed(pkg) ==
    \/ pkg.sensor_type_ = LASER /\ Len(pkg.raw_measurements_) = 2
    \/ pkg.sensor_type_ = RADAR /\ Len(pkg.raw_measurements_) = 3

\* C5: a package of an unsupported sensor type, or with raw_measurements_
\* of the wrong length, leaves is_initialized_, time_us_, x_ and P_ as they
\* were, in the Uninitialized and in the Initialized state.
C5_RejectInvalid ==
    [][(Returned /\ ~WellFormed(package'))
         => UNCHANGED <<is_initialized_, time_us_, x_, P_>>]_vars

\* C6: with use_laser_ false a LASER package that arrives after
\* initialization runs no lidar update, and with use_radar_ false a RADAR
\* package runs no radar update: x_ and P_ are left as they were, or as the
\* prediction step alone leaves them.
C6_FlagsGate ==
    [][(/\ Returned
        /\ is_initialized_
        /\ \/ ~use_laser_ /\ package'.sensor_type_ = LASER
           \/ ~use_radar_ /\ package'.sensor_type_ = RADAR)
         => /\ \A k \in 1..Len(calls') :
                  calls'[k] \notin {"PredictLidarMeasurement", "UpdateLidar",
                                    "PredictRadarMeasurement", "UpdateRadar"}
            /\ \/ x_' = x_ /\ P_' = P_
               \/ LET pr == PredictMeanAndCovariance(ScaledWeights(weights_),
                                                     Xsig_pred_')
                  IN  x_' = pr.x /\ P_' = pr.P]_vars

\* C7: when the Cholesky factorisation of the augmented covariance fails,
\* or the measurement covariance S has no inverse, the package leaves x_
\* and P_ as they were.
C7_SingularCovariance ==
    [][(/\ Returned
        /\ is_initialized_
        /\ \/ /\ AllFinite(P_, n_x_, n_x_)
              /\ LLTFailsFrom(AugmentedCovariance(P_), 1)
           \/ /\ package'.sensor_type_ = LASER
              /\ AllFinite(S_l_', n_z_lidar_, n_z_lidar_)
              /\ SingularFrom(S_l_', 1, n_z_lidar_)
           \/ /\ package'.sensor_type_ = RADAR
              /\ AllFinite(S_r_', n_z_radar_, n_z_radar_)
              /\ SingularFrom(S_r_', 1, n_z_radar_))
         => x_' = x_ /\ P_' = P_]_vars

\* the double w is the quotient p / q rounded to nearest: w is normalized,
\* carries the quotient's sign and lies within half a unit in the last place
\* of p / q, that is 2 |sig * |q| - |p| * 2^(-exp)| <= |q|
NearestDouble(w, p, q) ==
    LET lhs == BigTimes(w.sig, 2 * Abs(q), 0)
        rhs == BigShift(<<2 * Abs(p)>>, -w.exp)
        half == <<Abs(q)>>
    IN  /\ w.neg = ((p < 0) # (q < 0))
        /\ BigCmp(w.sig, BigShift(<<1>>, SignificandBits - 1)) >= 0
        /\ BigCmp(w.sig, BigShift(<<1>>, SignificandBits)) < 0
        /\ w.exp < 0
        /\ BigCmp(lhs, BigAdd(rhs, half, 0)) <= 0
        /\ BigCmp(rhs, BigAdd(lhs, half, 0)) <= 0

\* the least exponent among the doubles w[i..]
RECURSIVE LeastExp(_, _)
LeastExp(w, i) ==
    IF i > Len(w) THEN 0
    ELSE LET rest == LeastExp(w, i + 1)
         IN  IF w[i].exp < rest THEN w[i].exp ELSE rest

\* the sum of the magnitudes of the doubles w[i..] of sign neg, in units of
\* 2^unit
RECURSIVE SumOfSign(_, _, _, _)
SumOfSign(w, i, neg, unit) ==
    IF i > Len(w) THEN <<>>
    ELSE LET rest == SumOfSign(w, i + 1, neg, unit)
         IN  IF w[i].neg = neg
             THEN BigAdd(rest, BigShift(w[i].sig, w[i].exp - unit), 0)
             ELSE rest

\* the exact sum of the doubles w against 1, in units of 2^unit: pos is the
\* sum of the positive ones, neg the sum of the negative ones' magnitudes
\* plus 1
SumAgainstOne(w) ==
    LET unit == LeastExp(w, 1)
    IN  [unit |-> unit,
         pos |-> SumOfSign(w, 1, FALSE, unit),
         neg |-> BigAdd(SumOfSign(w, 1, TRUE, unit),
                        BigShift(<<1>>, -unit), 0)]

\* w[1] + ... + w[n] = 1
SumExactlyOne(w) ==
    LET s == SumAgainstOne(w) IN BigCmp(s.pos, s.neg) = 0

\* |w[1] + ... + w[n] - 1| <= 2^tol
SumNearOne(w, tol) ==
    LET s == SumAgainstOne(w)
        slack == BigShift(<<1>>, tol - s.unit)
    IN  /\ BigCmp(s.pos, BigAdd(s.neg, slack, 0)) <= 0
        /\ BigCmp(s.neg, BigAdd(s.pos, slack, 0)) <= 0

\* the initializing package writes the two quotients, and nothing
\* writes a weight before or after it
WeightsWrittenOnce ==
    IF is_initialized_
    THEN /\ NearestDouble(weights_[1], lambda_, lambda_ + 7)
         /\ \A i \in 2..15 : NearestDouble(weights_[i], 1, 2 * (lambda_ + 7))
    ELSE \A i \in 1..15 : IsZeroDouble(weights_[i])

\* the exponent of the tolerance on the sum of the weights: one unit in the
\* last place of 1.0
SumTolerance == 1 - SignificandBits

\* C8 (as amended): the initializing package alone writes the weight vector,
\* weights(0) = lambda / (lambda + n_aug) and weights(1..14) =
\* 1 / (2 (lambda + n_aug)) as doubles, n_aug = 7; the 15 weights sum to 1
\* within 2^-52; no later Predict or Update call changes a weight.
C8_Weights ==
    /\ WeightsWrittenOnce
    /\ is_initialized_ => SumNearOne(weights_, SumTolerance)

C8_Witness == count >= 3 /\ is_initialized_ /\ calls[1] = "Prediction"

\* C8 (as stated): the same, with the 15 weights summing to exactly 1.
C8_WeightsSumExactlyOne ==
    /\ WeightsWrittenOnce
    /\ is_initialized_ => SumExactlyOne(weights_)

\* C9: once initialized, after every call the heading x(3) lies in (-pi, pi].
C9_HeadingInRange ==
    (is_initialized_ /\ IsFinite(x_[4])) => (x_[4] > -M_PI /\ x_[4] <= M_PI)

\* C10: the radar projection divides by a range floored at a small epsilon:
\* after every radar measurement prediction the projected sigma points,
\* z_pred and S are finite.
C10_RadarProjectionFinite ==
    calls = RadarCalls =>
        /\ \A i \in 1..n_sig : \A r \in 1..n_z_radar_ : IsFinite(Zsig_radar[i][r])
        /\ \A r \in 1..n_z_radar_ : IsFinite(z_pred_r_[r])
        /\ AllFinite(S_r_, n_z_radar_, n_z_radar_)

====
